---------------------------- MODULE Spec2Model ----------------------------
(***************************************************************************)
(* A model of llama_mcp_proxy: the proxy entry point (proxy_request), the  *)
(* tool-call resolution loop (handle_tool_calls / execute_tool_calls), the *)
(* startup hook (init_mcp_servers / load_mcp_servers), the configuration   *)
(* resolver (MCPClientRegister._parse_config) and the tool client          *)
(* (MCPStdioClient / BaseMCPClient).                                       *)
(*                                                                         *)
(* Strings whose characters matter (provider names, tool names, qualified  *)
(* names) are sequences of one-character strings, so that concatenation    *)
(* and str.split are computed and not assumed.                             *)
(***************************************************************************)
EXTENDS Integers, Sequences, FiniteSets, TLC

VARIABLES
    \* ---- process configuration, set once in main() ----
    ENABLE_MCP,          \* main.py:16, set at main.py:353
    MAX_ITERATION,       \* main.py:17, set at main.py:354
    \* ---- the registry, main.py:22 ----
    connected_servers,   \* sequence of provider names (a dict keeps insertion order)
    \* ---- one tool client per provider, base_client.py:17-23 ----
    state, session, exit_stack, mcp_tools, openai_tools,
    \* ---- one frame per inbound request: the locals of proxy_request,
    \*      handle_tool_calls and execute_tool_calls (response is the first
    \*      upstream response, content its body once read) ----
    pc, request_data, response, content, tool_calls, idx, messages, follow_up_request,
    final_response, iteration, result,
    last,                \* per client: the operation called last and how it went
    \* ---- startup: the descriptor file at MCP_CONFIG_PATH, the clients
    \*      load_mcp_servers returned that init_mcp_servers has yet to connect,
    \*      and how far the process has come ----
    mcp_config, mcp_servers, phase,
    cleanup_pending,     \* the clients cleanup_mcp_servers has yet to disconnect
    \* ---- the configuration resolver: a descriptor and what it resolved to ----
    config_dict, server_config,
    \* ---- the environment as the handlers leave it ----
    n_sent,              \* how many requests went to the upstream API
    outbound,            \* the request sent last
    invoked,             \* the call_tool invocations of the batch under way
    failed               \* the ids of its calls whose error was logged (main.py:159)

globalVars == <<ENABLE_MCP, MAX_ITERATION, connected_servers>>
clientVars == <<state, session, exit_stack, mcp_tools, openai_tools, last>>
bootVars   == <<mcp_config, mcp_servers, phase, cleanup_pending>>
cfgVars    == <<config_dict, server_config>>
frameVars  == <<pc, request_data, response, content, tool_calls, idx, messages,
                follow_up_request, final_response, iteration, result>>
obsVars    == <<n_sent, outbound, invoked, failed>>
vars       == <<globalVars, clientVars, bootVars, cfgVars, frameVars, obsVars>>

----------------------------------------------------------------------------
(* Bounds of the model.                                                    *)

\* The largest configured --max_iteration the model explores (0..MaxIterations).
MaxIterations == 2
\* The largest number of tool calls in one upstream response.
MaxBatch == 2

----------------------------------------------------------------------------
(* Strings.                                                                *)

Dot == "."

RECURSIVE SplitFrom(_, _, _)
\* The segments of s from position i on, cur being the segment under way.
SplitFrom(s, i, cur) ==
    IF i > Len(s) THEN <<cur>>
    ELSE IF s[i] = Dot THEN <<cur>> \o SplitFrom(s, i + 1, <<>>)
    ELSE SplitFrom(s, i + 1, Append(cur, s[i]))

\* str.split("."): every "." separates, empty segments are kept.
Split(s) == SplitFrom(s, 1, <<>>)

\* A qualified name without its separator; C17 must not survive it.
Qualify_NoSeparator(namespace, name) == namespace \o name

\* f"{namespace}.{name}"
Qualify(namespace, name) == namespace \o <<Dot>> \o name

\* The providers a descriptor file may name, and the tool each one declares.
Providers == { <<"f">>, <<"d">> }
ToolOf(p) == <<"r">>

\* The names the inference API may emit in a tool call: a tool of each
\* provider, a name with no ".", a name with two ".".
QNames == { <<"f", ".", "r">>, <<"d", ".", "r">>, <<"r">>,
            <<"f", ".", "r", ".", "x">> }

----------------------------------------------------------------------------
(* Exceptions and values.  An operator that may raise returns              *)
(* [raised |-> <exception name or "none">, value |-> <its result>].        *)

None == [none |-> TRUE]
Ok(v) == [raised |-> "none", value |-> v]
Raise(e) == [raised |-> e, value |-> None]

\* A text handed to json.loads: either it is JSON, or it is not.
JsonText(v) == [valid |-> TRUE, value |-> v]
\* A text that is not JSON; v only keeps the record's type and is never read.
NotJson(v) == [valid |-> FALSE, value |-> v]
json_loads(text) == IF text.valid THEN Ok(text.value) ELSE Raise("JSONDecodeError")


----------------------------------------------------------------------------
(* What the upstream inference API may answer.                             *)

\* The shapes of a response body that parse_tools_from_response tells apart:
\* json: the body parses as JSON; isdict: the parsed value is an object;
\* choices: "absent", "empty", "list" (non-empty, first element an object) or
\* "nondict" (non-empty, first element not an object); message: "absent",
\* "null" or "dict".
Shape(j, d, c, m) == [json |-> j, isdict |-> d, choices |-> c, message |-> m]
ToolShape == Shape(TRUE, TRUE, "list", "dict")
PlainShapes ==
    { Shape(FALSE, FALSE, "absent", "absent"),
      Shape(TRUE, FALSE, "absent", "absent"),
      Shape(TRUE, TRUE, "absent", "absent"),
      Shape(TRUE, TRUE, "empty", "absent"),
      Shape(TRUE, TRUE, "nondict", "absent"),
      Shape(TRUE, TRUE, "list", "absent"),
      Shape(TRUE, TRUE, "list", "null"),
      ToolShape }

\* A body: its shape, the tool calls its first choice's message carries, and
\* the round-trip (1 = the initial forward) that it answers.
Body(round, shape, calls) ==
    [round |-> round, json |-> shape.json, isdict |-> shape.isdict,
     choices |-> shape.choices, message |-> shape.message,
     tool_calls |-> calls, error |-> ""]

\* The body of a response the proxy makes up itself (web.json_response({"error": ...})).
ErrorBody(text) ==
    [round |-> 0, json |-> TRUE, isdict |-> TRUE, choices |-> "absent",
     message |-> "absent", tool_calls |-> <<>>, error |-> text]

\* A tool call as the inference API emits it: {id, function: {name, arguments}}.
ToolCall(id, name, arguments) == [id |-> id, name |-> name, arguments |-> arguments]

\* The (name, arguments) pairs of the model: every name with arguments that
\* are JSON, and a name that splits and one that does not with arguments
\* that are not.
CallInputs ==
    { [name |-> n, arguments |-> JsonText("args")] : n \in QNames }
        \cup { [name |-> n, arguments |-> NotJson("args")] :
                   n \in { <<"f", ".", "r">>, <<"r">> } }

\* The batches of round `round`: 1..MaxBatch calls, the i-th with id 10*round+i.
Batches(round) ==
    UNION { { [i \in 1..n |-> ToolCall(10 * round + i, s[i].name, s[i].arguments)]
              : s \in [1..n -> CallInputs] } : n \in 1..MaxBatch }

PlainBodies(round) == { Body(round, sh, <<>>) : sh \in PlainShapes }

Bodies(round) ==
    PlainBodies(round) \cup { Body(round, ToolShape, b) : b \in Batches(round) }

\* The bodies that come with a status other than 200: every plain shape, and
\* one that carries a tool call.
FailureBodies(round) ==
    PlainBodies(round)
        \cup { Body(round, ToolShape,
                     <<ToolCall(10 * round + 1, <<"f", ".", "r">>, JsonText("args"))>>) }

\* session.request raising (connection refused, timeout): no response at all.
NetworkError == [status |-> 0, body |-> ErrorBody("network")]
NoResponse == [status |-> 0, body |-> ErrorBody("pending")]

Responses(round) ==
    { [status |-> 200, body |-> b] : b \in Bodies(round) }
        \cup { [status |-> 500, body |-> b] : b \in FailureBodies(round) }
        \cup { NetworkError }

\* parse_tools_from_response, on the value json.loads returned.
parse_tools_from_response(response_data) ==
    IF ~response_data.isdict THEN Raise("AttributeError")
    ELSE IF response_data.choices \in {"absent", "empty"} THEN Ok(<<>>)
    ELSE IF response_data.choices = "nondict" THEN Raise("AttributeError")
    ELSE IF response_data.message = "absent" THEN Ok(<<>>)
    ELSE IF response_data.message = "null" THEN Raise("AttributeError")
    ELSE Ok(response_data.tool_calls)

\* The text of a body, as response.read() returns it.
BodyText(body) == IF body.json THEN JsonText(body) ELSE NotJson(body)

----------------------------------------------------------------------------
(* Conversation messages.                                                  *)

Message(role, text, id, calls) ==
    [role |-> role, content |-> text, tool_call_id |-> id, tool_calls |-> calls]

\* In a message a tool call is named by its id, and the text of a tool
\* message (the tool's output, or the description of the error) is opaque:
\* no code of the proxy reads either.
Ids(calls) == [i \in DOMAIN calls |-> calls[i].id]

UserMessage == Message("user", "text", 0, <<>>)
\* main.py:129
AssistantMessage(calls) == Message("assistant", "", 0, Ids(calls))
\* main.py:148-156 and 161-167
ToolMessage(id) == Message("tool", "text", id, <<>>)

----------------------------------------------------------------------------
(* Inbound requests.                                                       *)

Reqs == {"r1", "r2"}

\* request_data after json.loads(body): the fields the proxy reads.
RequestData(stream, tools, tool_choice, msgs) ==
    [stream |-> stream, tools |-> tools, tool_choice |-> tool_choice,
     messages |-> msgs]

NoTools == [present |-> FALSE, list |-> <<>>]
Tools(list) == [present |-> TRUE, list |-> list]
CallerTools == Tools(<< <<"c", ".", "t">> >>)
\* json.loads("{}") with every .get defaulted: what an empty body stands for.
NoRequest == RequestData(FALSE, NoTools, FALSE, <<>>)

\* The inbound bodies: not JSON; empty (b""); a chat-completion object.
InboundBodies ==
    { [empty |-> FALSE, text |-> NotJson(NoRequest)],
      [empty |-> TRUE, text |-> NotJson(NoRequest)] }
        \cup { [empty |-> FALSE,
                text |-> JsonText(RequestData(s, t, c, <<UserMessage>>))]
               : s \in BOOLEAN, t \in {NoTools, CallerTools}, c \in BOOLEAN }


----------------------------------------------------------------------------
(* The tool client: schema translation (base_client.py).                   *)

\* A tool as a provider declares it; an empty name stands for a missing one.
McpTool(name) == [name |-> name]

\* BaseMCPClient._convert_single_tool: the qualified function name of the
\* translated tool, or RuntimeError for a tool without a name.
_convert_single_tool(namespace, mcp_tool) ==
    IF mcp_tool.name = <<>> THEN Raise("RuntimeError")
    ELSE Ok(Qualify(namespace, mcp_tool.name))

RECURSIVE _convert_mcp_tools_to_openai(_, _)
\* BaseMCPClient._convert_mcp_tools_to_openai: a tool that fails to convert
\* is skipped.
_convert_mcp_tools_to_openai(name, tools) ==
    IF tools = <<>> THEN <<>>
    ELSE LET t == _convert_single_tool(name, Head(tools))
             rest == _convert_mcp_tools_to_openai(name, Tail(tools))
         IN IF t.raised = "none" THEN <<t.value>> \o rest ELSE rest

\* The transport resources a connected client holds on its exit stack.
FullStack == <<"stdio_client", "ClientSession">>

\* An is_connected that is already true while connect() is awaiting; C13
\* must not survive it.
is_connected_WhileConnecting(p) == state[p] \in {"connected", "connecting"}

\* BaseMCPClient.is_connected
is_connected(p) == state[p] = "connected"

RECURSIVE ToolsOf(_)
\* get_mcp_tools with no server_names: the translated tools of every
\* registered client, in registry order.
ToolsOf(servers) ==
    IF servers = <<>> THEN <<>>
    ELSE openai_tools[Head(servers)] \o ToolsOf(Tail(servers))

get_mcp_tools == ToolsOf(connected_servers)

\* Whether name is a key of connected_servers.
Registered(name) == \E i \in 1..Len(connected_servers) : connected_servers[i] = name

----------------------------------------------------------------------------
(* The state a client is in after a successful connect().                  *)

ConnectedClient(p, field) ==
    CASE field = "state" -> "connected"
      [] field = "session" -> "open"
      [] field = "exit_stack" -> FullStack
      [] field = "mcp_tools" -> <<McpTool(ToolOf(p))>>
      [] field = "openai_tools" ->
            _convert_mcp_tools_to_openai(p, <<McpTool(ToolOf(p))>>)

\* BaseMCPClient.__init__
NewClient(field) ==
    CASE field = "state" -> "disconnected"
      [] field = "session" -> "none"
      [] field = "exit_stack" -> <<>>
      [] field = "mcp_tools" -> <<>>
      [] field = "openai_tools" -> <<>>

\* The registries startup can leave behind: the providers of the descriptor
\* file that connected, in file order.
Registries == { <<>>, << <<"f">> >>, << <<"d">> >>, << <<"f">>, <<"d">> >> }

Unbound == [bound |-> FALSE, value |-> ErrorBody("unbound")]
Bound(v) == [bound |-> TRUE, value |-> v]
NoResult == [status |-> 0, body |-> ErrorBody("pending"), exception |-> "none"]

InRegistry(reg, p) == \E i \in 1..Len(reg) : reg[i] = p

ClientsOf(reg, field) ==
    [p \in Providers |->
        IF InRegistry(reg, p) THEN ConnectedClient(p, field) ELSE NewClient(field)]

\* What is handed to session.request: json=request_data if body else None.
Outbound(kind, has_json, data) == [kind |-> kind, has_json |-> has_json, data |-> data]
NoOutbound == Outbound("none", FALSE, NoRequest)

\* What last[p] holds: the operation, the exception it raised ("none" if it
\* returned), and whether it handed a call to the transport.
Called(op, raised, forwarded) == [op |-> op, raised |-> raised, forwarded |-> forwarded]
Did(op, raised) == Called(op, raised, FALSE)
NoCall == Did("none", "none")

----------------------------------------------------------------------------
(* The configuration resolver (register.py:17-85, schemas.py).  A          *)
(* descriptor is the JSON value found under one provider name.  Of a map   *)
(* the model keeps, for each key, whether it is absent, holds a value of   *)
(* the declared type ("ok") or holds a value of another type ("bad");      *)
(* "other" stands for any key that neither dataclass declares.             *)

Keys == {"command", "args", "env", "timeout", "url", "transport", "headers", "other"}
Values == {"absent", "ok", "bad"}

Descriptor(map) == [is_map |-> TRUE, keys |-> map]
\* A descriptor that is a JSON string, number, list or null.
NotAMap == [is_map |-> FALSE, keys |-> [k \in Keys |-> "absent"]]
Descriptors == { Descriptor(map) : map \in [Keys -> Values] }

Present(data) == {k \in Keys : data.keys[k] # "absent"}

\* The dataclasses of schemas.py: their fields, and the fields with no default.
Fields(data_class) ==
    IF data_class = "StdioServerConfig" THEN {"command", "args", "env", "timeout"}
    ELSE {"url", "transport", "headers"}
Required(data_class) ==
    IF data_class = "StdioServerConfig" THEN {"command"} ELSE {"url"}

Parsed(v) == [raised |-> "none", value |-> v]
Failed(e) == [raised |-> e, value |-> "none"]

\* from_dict without strict=True, which ignores the keys the dataclass does
\* not declare; C9 must not survive it.
from_dict_lenient(data_class, data) ==
    IF ~data.is_map THEN Failed("AttributeError")
    ELSE IF \E k \in Fields(data_class) : data.keys[k] = "bad" THEN Failed("WrongTypeError")
    ELSE IF Required(data_class) \ Present(data) # {} THEN Failed("MissingValueError")
    ELSE Parsed(data_class)

\* dacite.from_dict(data_class, data, Config(strict=True)): data.keys() is
\* read first, then keys outside the dataclass are refused, then every field
\* is type-checked or, if absent and without default, reported missing.
from_dict(data_class, data) ==
    IF ~data.is_map THEN Failed("AttributeError")
    ELSE IF Present(data) \ Fields(data_class) # {} THEN Failed("UnexpectedDataError")
    ELSE IF \E k \in Fields(data_class) : data.keys[k] = "bad" THEN Failed("WrongTypeError")
    ELSE IF Required(data_class) \ Present(data) # {} THEN Failed("MissingValueError")
    ELSE Parsed(data_class)

DaciteError == {"UnexpectedDataError", "WrongTypeError", "MissingValueError"}

_config_types == <<"StdioServerConfig", "SSEServerConfig">>

RECURSIVE TryConfigTypes(_, _)
\* The for loop of _parse_config over the config types still to try.
TryConfigTypes(config_types, data) ==
    IF config_types = <<>> THEN Failed("ValueError")
    ELSE LET parsed == from_dict(Head(config_types), data)
         IN IF parsed.raised \in DaciteError
            THEN TryConfigTypes(Tail(config_types), data)
            ELSE parsed

_parse_config(data) == TryConfigTypes(_config_types, data)

\* The creators registered at register.py:70 and register.py:82.
_client_creators(config_type) ==
    IF config_type = "StdioServerConfig" THEN Parsed("MCPStdioClient")
    ELSE Failed("NotImplementedError")

\* MCPClientRegister.create_client: the client, None for a descriptor it
\* skips, or the exception it lets through.
create_client(data) ==
    LET parsed == _parse_config(data)
        created == IF parsed.raised = "none" THEN _client_creators(parsed.value)
                   ELSE parsed
    IN IF created.raised \in {"KeyError", "NotImplementedError", "ValueError"}
       THEN Parsed("None")
       ELSE created

----------------------------------------------------------------------------
(* The descriptor file and load_mcp_servers (register.py:88-110).          *)

Only(keys) == Descriptor([k \in Keys |-> IF k \in keys THEN "ok" ELSE "absent"])
\* The descriptors the startup model puts in the file.
FileDescriptors ==
    { Only({"command"}), Only({"command", "args", "env"}), Only({"url"}),
      Only({"command", "url"}), Only({}), NotAMap }

Entry(name, data) == [name |-> name, config |-> data]
File(status, servers) == [status |-> status, servers |-> servers]
Files ==
    { File(status, <<>>) : status \in {"missing", "unreadable", "invalid", "null", "ok"} }
    \cup { File("ok", <<Entry(p, a)>>) : p \in Providers, a \in FileDescriptors }
    \cup { File("ok", <<Entry(p, a), Entry(q, b)>>) :
             <<p, q>> \in {pq \in Providers \X Providers : pq[1] # pq[2]},
             <<a, b>> \in FileDescriptors \X FileDescriptors }
NoFile == File("none", <<>>)

Loaded(clients) == [raised |-> "none", clients |-> clients]
LoadFailed(e) == [raised |-> e, clients |-> <<>>]

RECURSIVE CreateClients(_)
\* The for loop at register.py:98-102 over the entries still to read.
CreateClients(servers) ==
    IF servers = <<>> THEN Loaded(<<>>)
    ELSE LET client == create_client(Head(servers).config)
             rest == CreateClients(Tail(servers))
         IN IF client.raised # "none" THEN LoadFailed(client.raised)
            ELSE IF rest.raised # "none" THEN rest
            ELSE IF client.value = "None" THEN rest
            ELSE Loaded(<<Head(servers).name>> \o rest.clients)

load_mcp_servers(file) ==
    CASE file.status = "missing" -> LoadFailed("FileNotFoundError")
      \* raise JSONDecodeError(msg) lacks the doc and pos arguments
      [] file.status = "invalid" -> LoadFailed("TypeError")
      [] file.status \in {"unreadable", "null"} -> LoadFailed("Exception")
      [] OTHER ->
           LET created == CreateClients(file.servers)
           IN IF created.raised = "none" THEN created ELSE LoadFailed("Exception")

Unresolved == [raised |-> "none", value |-> "none"]

\* Startup is over and no descriptor is being resolved.
BootOver ==
    /\ mcp_config = NoFile
    /\ mcp_servers = <<>>
    /\ phase = "serving"
    /\ cleanup_pending = <<>>
ResolverIdle ==
    /\ config_dict = NotAMap
    /\ server_config = Unresolved

FramesInit ==
    /\ pc = [r \in Reqs |-> "idle"]
    /\ request_data = [r \in Reqs |-> NoRequest]
    /\ response = [r \in Reqs |-> NoResponse]
    /\ content = [r \in Reqs |-> ErrorBody("pending")]
    /\ tool_calls = [r \in Reqs |-> <<>>]
    /\ idx = [r \in Reqs |-> 0]
    /\ messages = [r \in Reqs |-> <<>>]
    /\ follow_up_request = [r \in Reqs |-> NoRequest]
    /\ final_response = [r \in Reqs |-> Unbound]
    /\ iteration = [r \in Reqs |-> 0]
    /\ result = [r \in Reqs |-> NoResult]
    /\ n_sent = [r \in Reqs |-> 0]
    /\ outbound = [r \in Reqs |-> NoOutbound]
    /\ invoked = [r \in Reqs |-> <<>>]
    /\ failed = [r \in Reqs |-> {}]

\* The process as it serves requests: main() has set the configuration and
\* the startup hook has run.
Init ==
    /\ ENABLE_MCP \in BOOLEAN
    /\ MAX_ITERATION \in 0..MaxIterations
    /\ connected_servers \in (IF ENABLE_MCP THEN Registries ELSE {<<>>})
    /\ state = ClientsOf(connected_servers, "state")
    /\ session = ClientsOf(connected_servers, "session")
    /\ exit_stack = ClientsOf(connected_servers, "exit_stack")
    /\ mcp_tools = ClientsOf(connected_servers, "mcp_tools")
    /\ openai_tools = ClientsOf(connected_servers, "openai_tools")
    /\ last = [p \in Providers |->
                 IF InRegistry(connected_servers, p) THEN Did("connect", "none")
                 ELSE NoCall]
    /\ BootOver
    /\ ResolverIdle
    /\ FramesInit


----------------------------------------------------------------------------
(* proxy_request (main.py:36-125).                                         *)

\* A response handed back to the caller, with the exception (if any) that
\* the handler logged on the way.
Response(status, body, exc) == [status |-> status, body |-> body, exception |-> exc]
ServerError(exc) == Response(500, ErrorBody("Internal server error"), exc)

\* An injection that overrides the tools the caller named; C16 must not
\* survive it.
InjectTools_Always(data) == [data EXCEPT !.tools = Tools(get_mcp_tools)]

\* main.py:64-67: the tool catalog is injected when the caller named no tools.
InjectTools(data) ==
    IF ~data.tools.present THEN [data EXCEPT !.tools = Tools(get_mcp_tools)] ELSE data

\* A proxy_request without its streaming branch; C6 must not survive it.
Streams_Never(data, status) == FALSE

\* main.py:83: the streaming branch is taken.
Streams(data, status) == data.stream /\ status = 200

\* main.py:102: the buffered response is inspected for tool calls.
Inspects(status) == status = 200 /\ ENABLE_MCP

Returns(resp) == [kind |-> "return", response |-> resp, calls |-> <<>>]
Resolves(calls) == [kind |-> "resolve", response |-> ServerError("none"), calls |-> calls]

\* main.py:72-125, from the arrival of the first upstream response: either a
\* response goes back to the caller or handle_tool_calls is entered.
FirstOutcome(data, resp) ==
    IF resp = NetworkError THEN Returns(ServerError("ClientError"))
    ELSE IF Streams(data, resp.status)
    THEN Returns(Response(resp.status, resp.body, "none"))
    ELSE IF ~Inspects(resp.status)
    THEN Returns(Response(resp.status, resp.body, "none"))
    ELSE LET response_data == json_loads(BodyText(resp.body))
         IN IF response_data.raised # "none"
            THEN Returns(Response(resp.status, resp.body, response_data.raised))
            ELSE LET calls == parse_tools_from_response(response_data.value)
                 IN IF calls.raised # "none" THEN Returns(ServerError(calls.raised))
                    ELSE IF calls.value # <<>> THEN Resolves(calls.value)
                    ELSE Returns(Response(resp.status, resp.body, "none"))

\* The caller gets `resp`: the handler is over.
Respond(r, resp) ==
    /\ result' = [result EXCEPT ![r] = resp]
    /\ pc' = [pc EXCEPT ![r] = "done"]

\* execute_tool_calls is entered with `calls` (main.py:128-131).
StartBatch(r, calls) ==
    /\ tool_calls' = [tool_calls EXCEPT ![r] = calls]
    /\ idx' = [idx EXCEPT ![r] = 1]
    /\ messages' = [messages EXCEPT ![r] = <<AssistantMessage(calls)>>]
    /\ invoked' = [invoked EXCEPT ![r] = <<>>]
    /\ failed' = [failed EXCEPT ![r] = {}]
    /\ pc' = [pc EXCEPT ![r] = "exec"]

\* session.request(...) is entered with `out`.
Send(r, out) ==
    /\ n_sent' = [n_sent EXCEPT ![r] = @ + 1]
    /\ outbound' = [outbound EXCEPT ![r] = out]

\* The inbound request arrives: body read and parsed, tools injected, the
\* request forwarded (main.py:40-79).
proxy_request(r, body) ==
    /\ pc[r] = "idle"
    /\ LET parsed == IF body.empty THEN Ok(NoRequest) ELSE json_loads(body.text)
       IN IF parsed.raised # "none"
          THEN /\ Respond(r, Response(400, ErrorBody("Invalid JSON in request body"),
                                      parsed.raised))
               /\ UNCHANGED <<request_data, n_sent, outbound>>
          ELSE /\ request_data' = [request_data EXCEPT ![r] = InjectTools(parsed.value)]
               /\ Send(r, Outbound("initial", ~body.empty, request_data'[r]))
               /\ pc' = [pc EXCEPT ![r] = "await_first"]
               /\ UNCHANGED result
    /\ UNCHANGED <<response, content, tool_calls, idx, messages, follow_up_request,
                   final_response, iteration, invoked, failed>>
    /\ UNCHANGED <<globalVars, clientVars, bootVars, cfgVars>>

\* The first upstream response arrives (main.py:79-125).
first_response(r, resp) ==
    /\ pc[r] = "await_first"
    /\ LET out == FirstOutcome(request_data[r], resp)
       IN /\ response' = [response EXCEPT ![r] = resp]
          /\ content' = [content EXCEPT ![r] =
                IF resp = NetworkError \/ Streams(request_data[r], resp.status)
                THEN @ ELSE resp.body]
          /\ IF out.kind = "return"
             THEN /\ Respond(r, out.response)
                  /\ UNCHANGED <<tool_calls, idx, messages, invoked, failed>>
             ELSE /\ StartBatch(r, out.calls)
                  /\ UNCHANGED result
    /\ UNCHANGED <<request_data, follow_up_request, final_response, iteration,
                   n_sent, outbound>>
    /\ UNCHANGED <<globalVars, clientVars, bootVars, cfgVars>>


----------------------------------------------------------------------------
(* handle_tool_calls (main.py:171-220) and execute_tool_calls              *)
(* (main.py:128-168).  iteration[r] counts the passes of the for loop at   *)
(* main.py:192 that have begun; 0 is the code before the loop.             *)

\* A loop that runs one pass too many; C2 must not survive it.
LoopContinues_OneMore(k) == k <= MAX_ITERATION

\* main.py:192: range(MAX_ITERATION) yields another pass after k passes.
LoopContinues(k) == k < MAX_ITERATION

\* A loop that appends every batch to the original conversation, so that a
\* follow-up carries the latest round only; C15 must not survive it.
ConversationBase_Original(r) == request_data[r].messages

\* main.py:179 and 204: the conversation the batch's messages are appended to.
ConversationBase(r) ==
    IF iteration[r] = 0 THEN request_data[r].messages
    ELSE follow_up_request[r].messages

\* A first follow-up that keeps the caller's tool_choice; C14 must not
\* survive it.
FirstFollowUp_KeepsChoice(original_request, msgs) ==
    [original_request EXCEPT !.messages = msgs]

\* main.py:183-188: the first follow-up request is a copy of the original
\* with the new messages and without tool_choice.
FirstFollowUp(original_request, msgs) ==
    [original_request EXCEPT !.messages = msgs, !.tool_choice = FALSE]

\* main.py:207: later follow-ups replace the messages of the previous one.
NextFollowUp(previous, msgs) == [previous EXCEPT !.messages = msgs]

\* An error message that forgets the id of its call; C1 must not survive it.
ErrorResult_NoId(call) == ToolMessage(0)

\* main.py:161-167 and main.py:148-156.
ErrorResult(call) == ToolMessage(call.id)
TextResult(call) == ToolMessage(call.id)

\* A loop counter that all requests in flight share; C19 must not survive it.
NextPass_Shared(r) == [q \in Reqs |-> iteration[q] + 1]

\* main.py:192: the for loop of this call of handle_tool_calls begins
\* another pass.
NextPass(r) == [iteration EXCEPT ![r] = @ + 1]

\* A batch that is taken to be over after its first call; C21 must not
\* survive it.
MoreCalls_Never(i, calls) == FALSE

\* main.py:131: the for loop over tool_calls has another call after the i-th.
MoreCalls(i, calls) == i < Len(calls)

\* The loop body of execute_tool_calls has appended `msg` for the call at
\* idx[r].  Either the next call is up, or execute_tool_calls returns and
\* handle_tool_calls runs on to its next await: the follow-up request is
\* built and, if the for loop has a pass left, sent; otherwise the loop is
\* over and RuntimeError is raised (main.py:219-220), which proxy_request
\* turns into a 500 (main.py:123-125).
Advance(r, msg) ==
    LET msgs == Append(messages[r], msg)
    IN /\ messages' = [messages EXCEPT ![r] = msgs]
       /\ idx' = [idx EXCEPT ![r] = @ + 1]
       /\ IF MoreCalls(idx[r], tool_calls[r])
          THEN /\ pc' = [pc EXCEPT ![r] = "exec"]
               /\ UNCHANGED <<follow_up_request, iteration, n_sent, outbound, result>>
          ELSE /\ follow_up_request' = [follow_up_request EXCEPT ![r] =
                     IF iteration[r] = 0
                     THEN FirstFollowUp(request_data[r], ConversationBase(r) \o msgs)
                     ELSE NextFollowUp(@, ConversationBase(r) \o msgs)]
               /\ IF LoopContinues(iteration[r])
                  THEN /\ Send(r, Outbound("followup", TRUE, follow_up_request'[r]))
                       /\ iteration' = NextPass(r)
                       /\ pc' = [pc EXCEPT ![r] = "await_followup"]
                       /\ UNCHANGED result
                  ELSE /\ Respond(r, ServerError("RuntimeError"))
                       /\ UNCHANGED <<n_sent, outbound, iteration>>

\* A lookup that registers the name it does not find (dict.setdefault);
\* C22 must not survive it.
AfterGet_Inserting(servers, namespace) ==
    IF \E i \in 1..Len(servers) : servers[i] = namespace
    THEN servers ELSE Append(servers, namespace)

\* main.py:138: the registry after connected_servers.get(namespace, {}),
\* which only reads it.
AfterGet(servers, namespace) == servers

\* What a call_tool invocation is: the client, the tool name handed to it,
\* and the tool call it serves.
Invocation(client, tool, call) == [client |-> client, tool |-> tool, id |-> call.id]

\* One pass of the loop at main.py:131, up to the await of call_tool: the
\* arguments are parsed, the name is split, the client is looked up and
\* call_tool is entered.
execute_tool_call(r) ==
    /\ pc[r] = "exec"
    /\ LET call == tool_calls[r][idx[r]]
           tool_args == json_loads(call.arguments)
           parts == Split(call.name)
       IN IF tool_args.raised # "none"
          THEN \* not inside the try of main.py:143: caught at main.py:113
               /\ Respond(r, Response(200, content[r], tool_args.raised))
               /\ UNCHANGED <<messages, idx, follow_up_request, iteration, n_sent,
                              outbound, invoked, failed>>
          ELSE IF Len(parts) # 2
          THEN \* main.py:137: the unpacking raises ValueError
               /\ Respond(r, ServerError("ValueError"))
               /\ UNCHANGED <<messages, idx, follow_up_request, iteration, n_sent,
                              outbound, invoked, failed>>
          ELSE IF ~Registered(parts[1])
          THEN \* main.py:138-145: {}.call_tool raises AttributeError in the try
               /\ Advance(r, ErrorResult(call))
               /\ failed' = [failed EXCEPT ![r] = @ \cup {call.id}]
               /\ UNCHANGED invoked
          ELSE /\ invoked' = [invoked EXCEPT ![r] =
                     Append(@, Invocation(parts[1], parts[2], call))]
               /\ IF ~is_connected(parts[1])
                  THEN \* stdio_client.py:58-59
                       /\ Advance(r, ErrorResult(call))
                       /\ failed' = [failed EXCEPT ![r] = @ \cup {call.id}]
                  ELSE /\ pc' = [pc EXCEPT ![r] = "calling"]
                       /\ UNCHANGED <<messages, idx, follow_up_request, iteration,
                                      n_sent, outbound, result, failed>>
    /\ connected_servers' =
          LET call == tool_calls[r][idx[r]]
              parts == Split(call.name)
          IN IF json_loads(call.arguments).raised = "none" /\ Len(parts) = 2
             THEN AfterGet(connected_servers, parts[1])
             ELSE connected_servers
    /\ UNCHANGED <<request_data, response, content, tool_calls, final_response>>
    /\ UNCHANGED <<ENABLE_MCP, MAX_ITERATION, clientVars, bootVars, cfgVars>>

\* session.call_tool comes back (stdio_client.py:61-67): with a text, or
\* with an exception that call_tool re-raises and execute_tool_calls catches.
call_tool_return(r, raises) ==
    /\ pc[r] = "calling"
    /\ LET call == tool_calls[r][idx[r]]
       IN /\ Advance(r, IF raises THEN ErrorResult(call) ELSE TextResult(call))
          /\ failed' = [failed EXCEPT ![r] = IF raises THEN @ \cup {call.id} ELSE @]
    /\ UNCHANGED <<request_data, response, content, tool_calls, final_response,
                   invoked>>
    /\ UNCHANGED <<globalVars, clientVars, bootVars, cfgVars>>

\* main.py:198-218, from the arrival of a follow-up response.
FollowUpOutcome(previous, original, resp) ==
    IF resp = NetworkError THEN Returns(ServerError("ClientError"))
    ELSE IF resp.status = 200
    THEN LET final == json_loads(BodyText(resp.body))
         IN IF final.raised # "none"
            THEN \* caught at main.py:113: the first response is relayed
                 Returns(Response(200, original, final.raised))
            ELSE LET calls == parse_tools_from_response(final.value)
                 IN IF calls.raised # "none" THEN Returns(ServerError(calls.raised))
                    ELSE IF calls.value # <<>> THEN Resolves(calls.value)
                    ELSE Returns(Response(200, final.value, "none"))
    ELSE IF previous.bound THEN Returns(Response(200, previous.value, "none"))
    ELSE Returns(ServerError("UnboundLocalError"))

\* A follow-up response arrives.
followup_response(r, resp) ==
    /\ pc[r] = "await_followup"
    /\ LET out == FollowUpOutcome(final_response[r], content[r], resp)
       IN /\ final_response' = [final_response EXCEPT ![r] =
                IF resp # NetworkError /\ resp.status = 200 /\ resp.body.json
                THEN Bound(resp.body) ELSE @]
          /\ IF out.kind = "return"
             THEN /\ Respond(r, out.response)
                  /\ UNCHANGED <<tool_calls, idx, messages, invoked, failed>>
             ELSE /\ StartBatch(r, out.calls)
                  /\ UNCHANGED result
    /\ UNCHANGED <<request_data, response, content, follow_up_request, iteration,
                   n_sent, outbound>>
    /\ UNCHANGED <<globalVars, clientVars, bootVars, cfgVars>>

----------------------------------------------------------------------------
(* The process serving one inbound request.                                *)

Next ==
    \E r \in {"r1"} :
        \/ \E body \in InboundBodies : proxy_request(r, body)
        \/ \E resp \in Responses(n_sent[r]) : first_response(r, resp)
        \/ execute_tool_call(r)
        \/ \E raises \in BOOLEAN : call_tool_return(r, raises)
        \/ \E resp \in Responses(n_sent[r]) : followup_response(r, resp)

Spec == Init /\ [][Next]_vars

----------------------------------------------------------------------------
(* The tool client's lifecycle (stdio_client.py:18-67,                     *)
(* base_client.py:112-118).  connect() awaits the transport, so it is two  *)
(* steps: ConnectBegin up to the first await, ConnectEnd from there to its *)
(* return.  exit_stack[p] lists the transport resources the client's exit  *)
(* stack holds.                                                            *)

\* The awaited steps of connect(), in order; FailPoints adds "none" for a
\* connect() in which every step succeeds.
ConnectSteps == <<"stdio_client", "ClientSession", "initialize", "list_tools", "convert">>
FailPoints == {"none"} \cup {ConnectSteps[i] : i \in 1..Len(ConnectSteps)}

\* What the exit stack has entered when connect() fails at step fail.
Entered(fail) ==
    CASE fail = "stdio_client" -> <<>>
      [] fail = "ClientSession" -> <<"stdio_client">>
      [] OTHER -> FullStack

\* AsyncExitStack.aclose(): every context entered is exited, whether or not
\* one of the exits raises.
aclose(stack) == <<>>

\* aclose() can raise only if there is a context to exit.
AcloseRaises(stack, aclose_raises) == aclose_raises /\ stack # <<>>

\* Whether stdio_client.py:33 has assigned self.session before step fail.
SessionAssigned(fail) == fail \notin {"stdio_client", "ClientSession"}

\* stdio_client.py:19-27
ConnectBegin(p) ==
    IF state[p] = "connected"
    THEN /\ last' = [last EXCEPT ![p] = Did("connect", "none")]
         /\ UNCHANGED <<state, session, exit_stack, mcp_tools, openai_tools>>
    ELSE /\ state' = [state EXCEPT ![p] = "connecting"]
         /\ exit_stack' = [exit_stack EXCEPT ![p] = <<>>]
         /\ last' = [last EXCEPT ![p] = Did("connect", "pending")]
         /\ UNCHANGED <<session, mcp_tools, openai_tools>>

\* The exception connect() raises when it fails: MCPConnectionError, or
\* what exit_stack.aclose() raised at stdio_client.py:48.
ConnectRaises(fail, aclose_raises) ==
    IF fail = "none" THEN "none"
    ELSE IF AcloseRaises(Entered(fail), aclose_raises) THEN "Exception"
    ELSE "MCPConnectionError"

\* stdio_client.py:28-50
ConnectEnd(p, fail, aclose_raises) ==
    /\ state[p] = "connecting"
    /\ last' = [last EXCEPT ![p] = Did("connect", ConnectRaises(fail, aclose_raises))]
    /\ IF fail = "none"
       THEN /\ state' = [state EXCEPT ![p] = ConnectedClient(p, "state")]
            /\ session' = [session EXCEPT ![p] = ConnectedClient(p, "session")]
            /\ exit_stack' = [exit_stack EXCEPT ![p] = ConnectedClient(p, "exit_stack")]
            /\ mcp_tools' = [mcp_tools EXCEPT ![p] = ConnectedClient(p, "mcp_tools")]
            /\ openai_tools' = [openai_tools EXCEPT ![p] = ConnectedClient(p, "openai_tools")]
       ELSE /\ state' = [state EXCEPT ![p] = "error"]
            /\ exit_stack' = [exit_stack EXCEPT ![p] = aclose(Entered(fail))]
            /\ session' = [session EXCEPT ![p] =
                              IF ~AcloseRaises(Entered(fail), aclose_raises) THEN "none"
                              ELSE IF SessionAssigned(fail) THEN "open" ELSE @]
            /\ mcp_tools' = [mcp_tools EXCEPT ![p] =
                                IF fail = "convert" THEN ConnectedClient(p, "mcp_tools") ELSE @]
            /\ UNCHANGED openai_tools

\* BaseMCPClient.disconnect
Disconnect(p, aclose_raises) ==
    /\ state[p] # "connecting"
    /\ UNCHANGED <<mcp_tools, openai_tools>>
    /\ IF state[p] = "disconnected"
       THEN /\ last' = [last EXCEPT ![p] = Did("disconnect", "none")]
            /\ UNCHANGED <<state, session, exit_stack>>
       ELSE /\ exit_stack' = [exit_stack EXCEPT ![p] = aclose(@)]
            /\ IF AcloseRaises(exit_stack[p], aclose_raises)
               THEN /\ last' = [last EXCEPT ![p] = Did("disconnect", "Exception")]
                    /\ UNCHANGED <<state, session>>
               ELSE /\ last' = [last EXCEPT ![p] = Did("disconnect", "none")]
                    /\ session' = [session EXCEPT ![p] = "none"]
                    /\ state' = [state EXCEPT ![p] = "disconnected"]

\* MCPStdioClient.list_tools
ListTools(p) ==
    /\ last' = [last EXCEPT ![p] =
                  Did("list_tools", IF is_connected(p) THEN "none" ELSE "RuntimeError")]
    /\ UNCHANGED <<state, session, exit_stack, mcp_tools, openai_tools>>

\* A call_tool that gives the connection up when the transport fails; C10
\* must not survive it.
CallTool_DropsOnFailure(p, raises) ==
    /\ last' = [last EXCEPT ![p] =
                  IF ~is_connected(p) THEN Did("call_tool", "RuntimeError")
                  ELSE Called("call_tool", IF raises THEN "Exception" ELSE "none", TRUE)]
    /\ state' = [state EXCEPT ![p] = IF is_connected(p) /\ raises THEN "disconnected" ELSE @]
    /\ UNCHANGED <<session, exit_stack, mcp_tools, openai_tools>>

\* A call_tool that gives up the session of a failed call; C23 must not
\* survive it.
CallTool_ForgetsSessionOnFailure(p, raises) ==
    /\ last' = [last EXCEPT ![p] =
                  IF ~is_connected(p) THEN Did("call_tool", "RuntimeError")
                  ELSE Called("call_tool", IF raises THEN "Exception" ELSE "none", TRUE)]
    /\ session' = [session EXCEPT ![p] = IF is_connected(p) /\ raises THEN "none" ELSE @]
    /\ UNCHANGED <<state, exit_stack, mcp_tools, openai_tools>>

\* MCPStdioClient.call_tool, the awaited session.call_tool included.
CallTool(p, raises) ==
    /\ last' = [last EXCEPT ![p] =
                  IF ~is_connected(p) THEN Did("call_tool", "RuntimeError")
                  ELSE Called("call_tool", IF raises THEN "Exception" ELSE "none", TRUE)]
    /\ UNCHANGED <<state, session, exit_stack, mcp_tools, openai_tools>>

\* One client driven by any caller, one call at a time per client except
\* that list_tools() and call_tool() may arrive while connect() is awaiting.
connect(p) ==
    /\ state[p] # "connecting"
    /\ ConnectBegin(p)
    /\ UNCHANGED <<globalVars, bootVars, cfgVars, frameVars, obsVars>>

connect_returns(p, fail, aclose_raises) ==
    /\ ConnectEnd(p, fail, aclose_raises)
    /\ UNCHANGED <<globalVars, bootVars, cfgVars, frameVars, obsVars>>

disconnect(p, aclose_raises) ==
    /\ Disconnect(p, aclose_raises)
    /\ UNCHANGED <<globalVars, bootVars, cfgVars, frameVars, obsVars>>

list_tools(p) ==
    /\ ListTools(p)
    /\ UNCHANGED <<globalVars, bootVars, cfgVars, frameVars, obsVars>>

call_tool(p, raises) ==
    /\ CallTool(p, raises)
    /\ UNCHANGED <<globalVars, bootVars, cfgVars, frameVars, obsVars>>

\* Clients as create_stdio_client returns them, with no request in flight.
InitClient ==
    /\ ENABLE_MCP = TRUE
    /\ MAX_ITERATION = MaxIterations
    /\ connected_servers = <<>>
    /\ state = ClientsOf(<<>>, "state")
    /\ session = ClientsOf(<<>>, "session")
    /\ exit_stack = ClientsOf(<<>>, "exit_stack")
    /\ mcp_tools = ClientsOf(<<>>, "mcp_tools")
    /\ openai_tools = ClientsOf(<<>>, "openai_tools")
    /\ last = [p \in Providers |-> NoCall]
    /\ BootOver
    /\ ResolverIdle
    /\ FramesInit

NextClient ==
    \E p \in Providers :
        \/ connect(p)
        \/ \E fail \in FailPoints, aclose_raises \in BOOLEAN :
              connect_returns(p, fail, aclose_raises)
        \/ \E aclose_raises \in BOOLEAN : disconnect(p, aclose_raises)
        \/ list_tools(p)
        \/ \E raises \in BOOLEAN : call_tool(p, raises)

SpecClient == InitClient /\ [][NextClient]_vars

----------------------------------------------------------------------------
(* Startup: main() (main.py:348-365), create_app (main.py:289-305) and     *)
(* init_mcp_servers (main.py:252-271).  phase is "main" once main() has    *)
(* set the configuration, "connecting" while the startup hook awaits its   *)
(* clients, "setup" when runner.setup() has returned, and "serving" once   *)
(* site.start() has.                                                       *)

\* runner.setup() of an application built with ENABLE_MCP false: create_app
\* registered no startup hook.
runner_setup ==
    /\ phase = "main"
    /\ ~ENABLE_MCP
    /\ phase' = "setup"
    /\ UNCHANGED <<mcp_config, mcp_servers, cleanup_pending>>
    /\ UNCHANGED <<globalVars, clientVars, cfgVars, frameVars, obsVars>>

\* init_mcp_servers up to its for loop.  An exception of load_mcp_servers
\* is logged at main.py:270-271 and the hook returns.
init_mcp_servers ==
    /\ phase = "main"
    /\ ENABLE_MCP
    /\ LET loaded == load_mcp_servers(mcp_config)
       IN /\ mcp_servers' = loaded.clients
          /\ phase' = IF loaded.clients = <<>> THEN "setup" ELSE "connecting"
    /\ UNCHANGED <<mcp_config, cleanup_pending>>
    /\ UNCHANGED <<globalVars, clientVars, cfgVars, frameVars, obsVars>>

\* main.py:263-264: connect() of the next client, up to its first await.
init_connect ==
    /\ phase = "connecting"
    /\ state[Head(mcp_servers)] # "connecting"
    /\ ConnectBegin(Head(mcp_servers))
    /\ UNCHANGED <<bootVars, globalVars, cfgVars, frameVars, obsVars>>

\* main.py:264-268: connect() returns or raises; the client is registered
\* if it returned, and the loop goes on to the next client either way.
init_connected(fail, aclose_raises) ==
    /\ phase = "connecting"
    /\ ConnectEnd(Head(mcp_servers), fail, aclose_raises)
    /\ connected_servers' =
          IF ConnectRaises(fail, aclose_raises) = "none"
          THEN Append(connected_servers, Head(mcp_servers))
          ELSE connected_servers
    /\ mcp_servers' = Tail(mcp_servers)
    /\ phase' = IF Tail(mcp_servers) = <<>> THEN "setup" ELSE "connecting"
    /\ UNCHANGED <<ENABLE_MCP, MAX_ITERATION, mcp_config, cleanup_pending>>
    /\ UNCHANGED <<cfgVars, frameVars, obsVars>>

\* main.py:364-365
site_start ==
    /\ phase = "setup"
    /\ phase' = "serving"
    /\ UNCHANGED <<mcp_config, mcp_servers, cleanup_pending>>
    /\ UNCHANGED <<globalVars, clientVars, cfgVars, frameVars, obsVars>>

\* The process as main() has configured it, before runner.setup().
InitStartup ==
    /\ ENABLE_MCP \in BOOLEAN
    /\ MAX_ITERATION = MaxIterations
    /\ connected_servers = <<>>
    /\ state = ClientsOf(<<>>, "state")
    /\ session = ClientsOf(<<>>, "session")
    /\ exit_stack = ClientsOf(<<>>, "exit_stack")
    /\ mcp_tools = ClientsOf(<<>>, "mcp_tools")
    /\ openai_tools = ClientsOf(<<>>, "openai_tools")
    /\ last = [p \in Providers |-> NoCall]
    /\ mcp_config \in Files
    /\ mcp_servers = <<>>
    /\ phase = "main"
    /\ cleanup_pending = <<>>
    /\ ResolverIdle
    /\ FramesInit

NextStartup ==
    \/ runner_setup
    \/ init_mcp_servers
    \/ init_connect
    \/ \E fail \in FailPoints, aclose_raises \in BOOLEAN : init_connected(fail, aclose_raises)
    \/ site_start

SpecStartup == InitStartup /\ [][NextStartup]_vars

----------------------------------------------------------------------------
(* The configuration resolver applied to one descriptor.                   *)

parse_config ==
    /\ server_config = Unresolved
    /\ server_config' = _parse_config(config_dict)
    /\ UNCHANGED config_dict
    /\ UNCHANGED <<globalVars, clientVars, bootVars, frameVars, obsVars>>

InitParse ==
    /\ ENABLE_MCP = TRUE
    /\ MAX_ITERATION = MaxIterations
    /\ connected_servers = <<>>
    /\ state = ClientsOf(<<>>, "state")
    /\ session = ClientsOf(<<>>, "session")
    /\ exit_stack = ClientsOf(<<>>, "exit_stack")
    /\ mcp_tools = ClientsOf(<<>>, "mcp_tools")
    /\ openai_tools = ClientsOf(<<>>, "openai_tools")
    /\ last = [p \in Providers |-> NoCall]
    /\ BootOver
    /\ config_dict \in Descriptors
    /\ server_config = Unresolved
    /\ FramesInit

NextParse == parse_config

SpecParse == InitParse /\ [][NextParse]_vars

----------------------------------------------------------------------------
(* Shutdown: runner.cleanup() (main.py:373-374) runs cleanup_mcp_servers   *)
(* (main.py:274-286) if create_app registered it.  phase is "cleanup"      *)
(* while the hook awaits its clients and "stopped" when it has returned.   *)

\* A cleanup loop that an exception of disconnect() ends; C18 must not
\* survive it.
StillToDisconnect_UntilFailure(servers, raised) ==
    IF raised = "none" THEN Tail(servers) ELSE <<>>

\* main.py:279-284: the loop goes on to the next client whether disconnect()
\* returned or raised.
StillToDisconnect(servers, raised) == Tail(servers)

\* runner.cleanup() begins; with no hook, or no client, it is over at once.
runner_cleanup ==
    /\ phase = "serving"
    /\ IF ENABLE_MCP /\ connected_servers # <<>>
       THEN /\ phase' = "cleanup"
            /\ cleanup_pending' = connected_servers
       ELSE /\ phase' = "stopped"
            /\ UNCHANGED cleanup_pending
    /\ UNCHANGED <<mcp_config, mcp_servers>>
    /\ UNCHANGED <<globalVars, clientVars, cfgVars, frameVars, obsVars>>

\* main.py:280-286: disconnect() of the next client returns or raises; after
\* the last client the registry is cleared.
cleanup_mcp_servers(aclose_raises) ==
    /\ phase = "cleanup"
    /\ Disconnect(Head(cleanup_pending), aclose_raises)
    /\ cleanup_pending' =
          StillToDisconnect(cleanup_pending, last'[Head(cleanup_pending)].raised)
    /\ IF cleanup_pending' = <<>>
       THEN /\ connected_servers' = <<>>
            /\ phase' = "stopped"
       ELSE UNCHANGED <<connected_servers, phase>>
    /\ UNCHANGED <<ENABLE_MCP, MAX_ITERATION, mcp_config, mcp_servers>>
    /\ UNCHANGED <<cfgVars, frameVars, obsVars>>

NextShutdown ==
    \/ NextStartup
    \/ runner_cleanup
    \/ \E aclose_raises \in BOOLEAN : cleanup_mcp_servers(aclose_raises)

\* The process from main() to the end of runner.cleanup().
SpecShutdown == InitStartup /\ [][NextShutdown]_vars

----------------------------------------------------------------------------
(* Two inbound requests served concurrently.  aiohttp runs each            *)
(* proxy_request call as a task of one event loop, so the handlers         *)
(* interleave at their awaits: session.request, response.read and          *)
(* call_tool.  Both requests are chat completions that name no tools, and  *)
(* upstream answers with one tool call of a registered provider, with no   *)
(* tool call, or with an error status.                                     *)

ConcurrentBodies ==
    { [empty |-> FALSE, text |-> JsonText(RequestData(FALSE, NoTools, c, <<UserMessage>>))]
        : c \in BOOLEAN }

ConcurrentResponses(round) ==
    { [status |-> 200,
       body |-> Body(round, ToolShape,
                     <<ToolCall(10 * round + 1, Qualify(p, ToolOf(p)), JsonText("args"))>>)]
        : p \in Providers }
    \cup { [status |-> s, body |-> Body(round, ToolShape, <<>>)] : s \in {200, 500} }

\* Both providers are registered.
InitConcurrent ==
    /\ ENABLE_MCP = TRUE
    /\ MAX_ITERATION \in 0..MaxIterations
    /\ connected_servers = << <<"f">>, <<"d">> >>
    /\ state = ClientsOf(connected_servers, "state")
    /\ session = ClientsOf(connected_servers, "session")
    /\ exit_stack = ClientsOf(connected_servers, "exit_stack")
    /\ mcp_tools = ClientsOf(connected_servers, "mcp_tools")
    /\ openai_tools = ClientsOf(connected_servers, "openai_tools")
    /\ last = [p \in Providers |-> Did("connect", "none")]
    /\ BootOver
    /\ ResolverIdle
    /\ FramesInit

NextConcurrent ==
    \E r \in Reqs :
        \/ \E body \in ConcurrentBodies : proxy_request(r, body)
        \/ \E resp \in ConcurrentResponses(n_sent[r]) : first_response(r, resp)
        \/ execute_tool_call(r)
        \/ \E raises \in BOOLEAN : call_tool_return(r, raises)
        \/ \E resp \in ConcurrentResponses(n_sent[r]) : followup_response(r, resp)

SpecConcurrent == InitConcurrent /\ [][NextConcurrent]_vars

----------------------------------------------------------------------------
(* The whole process: startup, two inbound requests served concurrently    *)
(* once site.start() has returned, and shutdown.                           *)

\* main() with a descriptor file that is missing, or names one or two stdio
\* providers.
InitServing ==
    /\ InitStartup
    /\ mcp_config \in
          { File("missing", <<>>),
            File("ok", <<Entry(<<"f">>, Only({"command"}))>>),
            File("ok", <<Entry(<<"f">>, Only({"command"})),
                         Entry(<<"d">>, Only({"command", "args", "env"}))>>) }

\* Requests are served once site.start() has returned (main.py:364-365) and
\* until runner.cleanup() begins (main.py:374).
NextServing ==
    \/ NextShutdown
    \/ phase = "serving" /\ NextConcurrent

SpecServing == InitServing /\ [][NextServing]_vars

----------------------------------------------------------------------------
(* Properties of the resolution loop.                                      *)

\* execute_tool_calls has returned for the batch in tool_calls[r].
BatchDone(r) == tool_calls[r] # <<>> /\ idx[r] = Len(tool_calls[r]) + 1

\* The round-trip whose response carried the batch (ids are 10*round+i).
BatchRound(r) == tool_calls[r][1].id \div 10

\* C1: when execute_tool_calls returns for a batch of N calls, the list it
\* returns holds the assistant message and then exactly N tool messages, the
\* i-th carrying the tool_call_id of the i-th call, however many of the calls
\* failed (provider not registered, or call_tool raising).
C1_OneResultPerCall ==
    \A r \in Reqs :
        BatchDone(r) =>
            /\ Len(messages[r]) = Len(tool_calls[r]) + 1
            /\ messages[r][1].role = "assistant"
            /\ \A i \in 1..Len(tool_calls[r]) :
                  /\ messages[r][i + 1].role = "tool"
                  /\ messages[r][i + 1].tool_call_id = tool_calls[r][i].id

\* A batch of two or more calls has returned, one call failed and one did not.
C1_Witness ==
    \E r \in Reqs :
        /\ BatchDone(r)
        /\ Len(tool_calls[r]) >= 2
        /\ \E i, j \in 1..Len(tool_calls[r]) :
              tool_calls[r][i].id \in failed[r] /\ tool_calls[r][j].id \notin failed[r]

\* C2: the for loop never begins more than MAX_ITERATION passes, so at most
\* MAX_ITERATION follow-up requests are sent; and when the response of the
\* last permitted round still carries tool calls and its batch has run, the
\* request is over with RuntimeError("Reached Max iteration") turned into a
\* 500 for the caller.
C2_BudgetExceeded ==
    \A r \in Reqs :
        /\ iteration[r] <= MAX_ITERATION
        /\ n_sent[r] <= MAX_ITERATION + 1
        /\ (BatchDone(r) /\ BatchRound(r) = MAX_ITERATION + 1) =>
              (pc[r] = "done" /\ result[r] = ServerError("RuntimeError"))

\* The budget of the largest configured maximum has been used up.
C2_Witness ==
    \E r \in Reqs :
        /\ MAX_ITERATION = MaxIterations
        /\ iteration[r] = MAX_ITERATION
        /\ BatchDone(r) /\ BatchRound(r) = MAX_ITERATION + 1
        /\ result[r] = ServerError("RuntimeError")

\* handle_tool_calls returned a response (main.py:209 or 218), which
\* proxy_request hands to the caller with status 200 (main.py:111).
LoopReturned(r) ==
    pc[r] = "done" /\ iteration[r] >= 1 /\ result[r].exception = "none"

\* C3: every response handle_tool_calls returns is the body of the most
\* recent upstream round and carries no tool calls.
C3_ReturnsLastRoundWithoutCalls ==
    \A r \in Reqs :
        LoopReturned(r) =>
            /\ result[r].body.round = n_sent[r]
            /\ result[r].body.tool_calls = <<>>

\* A follow-up request that carries the tool message of call `id`.
Carries(out, id) ==
    /\ out.kind = "followup"
    /\ \E i \in 1..Len(out.data.messages) :
          /\ out.data.messages[i].role = "tool"
          /\ out.data.messages[i].tool_call_id = id

\* C4: a call that failed (provider not registered, or call_tool raising)
\* does not abort the request: no client was invoked for an unregistered
\* provider, the batch ran to its end, and once it has, the follow-up request
\* carrying the call's result message has been submitted (stated for a
\* budget of at least one follow-up round).
C4_FailedCallIsFedBack ==
    \A r \in Reqs :
        /\ \A i \in 1..Len(invoked[r]) : Registered(invoked[r][i].client)
        /\ (MAX_ITERATION >= 1 /\ BatchDone(r) /\ failed[r] # {}) =>
              \A id \in failed[r] : Carries(outbound[r], id)

\* C5: when the first upstream response, taken on the buffered path, carries
\* no tool calls, or has a status other than 200, or a body that is not JSON,
\* the caller gets its status and body unchanged, no client was invoked and
\* one request went upstream.
C5_PlainResponseIsRelayed ==
    \A r \in Reqs :
        ( /\ n_sent[r] >= 1
          /\ response[r] \notin {NoResponse, NetworkError}
          /\ ~Streams(request_data[r], response[r].status)
          /\ \/ response[r].body.tool_calls = <<>>
             \/ response[r].status # 200
             \/ ~response[r].body.json )
        => /\ pc[r] = "done"
           /\ result[r].status = response[r].status
           /\ result[r].body = response[r].body
           /\ invoked[r] = <<>>
           /\ n_sent[r] = 1

\* C6: for a request whose stream flag is set, no call_tool invocation is
\* made and no follow-up request is sent, whatever the upstream answers.
C6_StreamingNeverResolves ==
    \A r \in Reqs :
        request_data[r].stream =>
            /\ invoked[r] = <<>>
            /\ n_sent[r] <= 1
            /\ pc[r] \in {"idle", "await_first", "done"}
            /\ tool_calls[r] = <<>>

\* A streaming request was answered with status 200 and tool calls, and is over.
C6_Witness ==
    \E r \in Reqs :
        /\ request_data[r].stream
        /\ ENABLE_MCP
        /\ pc[r] = "done"
        /\ response[r].status = 200
        /\ response[r].body.tool_calls # <<>>

----------------------------------------------------------------------------
(* Properties of startup.                                                  *)

\* runner.setup() has returned: the startup hook, if any, is over.
StartupOver == phase \in {"setup", "serving"}

\* The entries of the descriptor file that resolve to the Stdio variant.
StdioEntries ==
    {i \in 1..Len(mcp_config.servers) :
        _parse_config(mcp_config.servers[i].config) = Parsed("StdioServerConfig")}

\* C7: after startup the registry holds exactly the providers whose
\* descriptor resolved to Stdio and whose connect() returned; connect() was
\* attempted on every provider with a Stdio descriptor, whatever the other
\* entries of the file are and wherever they stand; and startup went on.
C7_RegistryIsTheConnectedStdioProviders ==
    (ENABLE_MCP /\ mcp_config.status = "ok" /\ StartupOver) =>
        /\ \A i \in StdioEntries : last[mcp_config.servers[i].name].op = "connect"
        /\ \A p \in Providers :
              Registered(p) <=>
                 \E i \in StdioEntries :
                    /\ mcp_config.servers[i].name = p
                    /\ last[p] = Did("connect", "none")

\* C8: with tool orchestration enabled and a descriptor file that is
\* missing, unreadable or not valid JSON, the process never serves.
C8_BadFileHaltsStartup ==
    (ENABLE_MCP /\ mcp_config.status \in {"missing", "unreadable", "invalid"}) =>
        phase # "serving"

----------------------------------------------------------------------------
(* Properties of the configuration resolver.                               *)

----------------------------------------------------------------------------
(* Properties of the client's lifecycle.                                   *)

\* C10 as stated: a client in Error is in Error after every step, and a
\* client goes from Connected to Disconnected only in a disconnect() call.
C10_ErrorIsTerminal ==
    [][\A p \in Providers :
          /\ state[p] = "error" => state'[p] = "error"
          /\ (state[p] = "connected" /\ state'[p] = "disconnected") =>
                last'[p].op = "disconnect"]_vars

\* C10: a client in Error stays in Error under list_tools() and call_tool()
\* and leaves it only in a connect() call, for Connecting, or in a
\* disconnect() call, for Disconnected; and a client goes from Connected to
\* Disconnected only in a disconnect() call.
C10_ErrorLeftOnlyByConnectOrDisconnect ==
    [][\A p \in Providers :
          /\ (state[p] = "error" /\ state'[p] # "error") =>
                \/ last'[p].op = "connect" /\ state'[p] = "connecting"
                \/ last'[p].op = "disconnect" /\ state'[p] = "disconnected"
          /\ (state[p] = "connected" /\ state'[p] # "connected") =>
                last'[p].op = "disconnect" /\ state'[p] = "disconnected"]_vars

\* A client in Error was asked to call a tool, refused, and is still in Error.
C10_Witness ==
    \E p \in Providers :
        /\ state[p] = "error"
        /\ last[p] = Did("call_tool", "RuntimeError")

\* connect() of client p exits in this step with an exception.
ConnectFails(p) ==
    /\ state[p] = "connecting"
    /\ state'[p] # "connecting"
    /\ last'[p].raised # "none"

\* C11: when connect() fails at any of its steps, it leaves the client in
\* Error, with nothing left on the exit stack and the session handle
\* cleared, and what it raises is the connection error.
C11_FailedConnectCleansUp ==
    [][\A p \in Providers :
          ConnectFails(p) =>
             /\ state'[p] = "error"
             /\ exit_stack'[p] = <<>>
             /\ session'[p] = "none"
             /\ last'[p] = Did("connect", "MCPConnectionError")]_vars

\* All that client p holds.
ClientOf(p) == <<state[p], session[p], exit_stack[p], mcp_tools[p], openai_tools[p]>>

\* This step is a disconnect() call on client p.
DisconnectStep(p) ==
    /\ last'[p].op = "disconnect"
    /\ <<ClientOf(p), last[p]>>' # <<ClientOf(p), last[p]>>

\* C12: disconnect() on a Disconnected client changes nothing and releases
\* nothing; in any other state it empties the exit stack and leaves the
\* client Disconnected with no session, so that a second disconnect()
\* changes nothing more.
C12_DisconnectIsIdempotent ==
    [][\A p \in Providers :
          DisconnectStep(p) =>
             /\ state[p] = "disconnected" => ClientOf(p)' = ClientOf(p)
             /\ state[p] # "disconnected" =>
                   /\ exit_stack'[p] = <<>>
                   /\ session'[p] = "none"
                   /\ state'[p] = "disconnected"]_vars

\* This step is a list_tools() or call_tool() call on client p.
CallStep(p) ==
    /\ last'[p].op \in {"list_tools", "call_tool"}
    /\ last'[p] # last[p]

\* This step is a connect() call on client p, up to its first await.
ConnectStep(p) ==
    /\ last'[p].op = "connect"
    /\ last'[p] # last[p]
    /\ state[p] # "connecting"

\* C13: list_tools() and call_tool() on a client that is not Connected raise
\* RuntimeError, hand nothing to the transport and change nothing; connect()
\* on a Connected client returns at once and leaves the client, its exit
\* stack included, as it was.
C13_CallsNeedConnected ==
    [][\A p \in Providers :
          /\ (CallStep(p) /\ state[p] # "connected") =>
                /\ last'[p].raised = "RuntimeError"
                /\ ~last'[p].forwarded
                /\ ClientOf(p)' = ClientOf(p)
          /\ (ConnectStep(p) /\ state[p] = "connected") =>
                /\ last'[p] = Did("connect", "none")
                /\ ClientOf(p)' = ClientOf(p)]_vars

\* A client whose connect() is awaiting was asked to call a tool and refused.
C13_Witness ==
    \E p \in Providers :
        /\ state[p] = "connecting"
        /\ last[p] = Did("call_tool", "RuntimeError")

----------------------------------------------------------------------------
(* Properties of the requests sent upstream.                               *)

\* C14: no follow-up request handed to session.request carries tool_choice,
\* whether or not the inbound request had one.
C14_FollowUpsHaveNoToolChoice ==
    \A r \in Reqs :
        outbound[r].kind = "followup" => ~outbound[r].data.tool_choice

\* A request that came with tool_choice has had its second follow-up sent.
C14_Witness ==
    \E r \in Reqs :
        /\ request_data[r].tool_choice
        /\ outbound[r].kind = "followup"
        /\ n_sent[r] = 3

\* Whether s is a prefix of t.
IsPrefix(s, t) == Len(s) <= Len(t) /\ SubSeq(t, 1, Len(s)) = s

\* Whether s is a suffix of t.
IsSuffix(s, t) == Len(s) <= Len(t) /\ SubSeq(t, Len(t) - Len(s) + 1, Len(t)) = s

\* The messages execute_tool_calls returns for the calls with these ids.
RoundMessages(ids) ==
    <<Message("assistant", "", 0, ids)>> \o [i \in 1..Len(ids) |-> ToolMessage(ids[i])]

RECURSIVE Rounds(_, _)
\* How many rounds msgs is made of, the first being round j: each round one
\* assistant message with empty content carrying the ids 10*j+1..10*j+n of
\* all n calls of round j, then the n tool messages of these calls in order.
\* -1 if msgs is not of that form.
Rounds(msgs, j) ==
    IF msgs = <<>> THEN 0
    ELSE LET n == Len(Head(msgs).tool_calls)
             ids == [i \in 1..n |-> 10 * j + i]
         IN IF n >= 1 /\ IsPrefix(RoundMessages(ids), msgs)
            THEN LET rest == Rounds(SubSeq(msgs, n + 2, Len(msgs)), j + 1)
                 IN IF rest < 0 THEN -1 ELSE rest + 1
            ELSE -1

\* What follows the original conversation in the messages of a request.
Appended(r, data) ==
    SubSeq(data.messages, Len(request_data[r].messages) + 1, Len(data.messages))

\* C15: the messages of follow-up request k are the original messages and
\* then, for the rounds 1..k in order, the assistant message of the round
\* with all its tool calls and the round's tool messages, the last round
\* being the batch just executed; and each follow-up request's messages
\* have those of the follow-up before it as a prefix.
C15_FollowUpCarriesWholeConversation ==
    /\ [](\A r \in Reqs :
            outbound[r].kind = "followup" =>
               /\ IsPrefix(request_data[r].messages, outbound[r].data.messages)
               /\ Rounds(Appended(r, outbound[r].data), 1) = n_sent[r] - 1
               /\ pc[r] = "await_followup" =>
                     IsSuffix(RoundMessages(Ids(tool_calls[r])), outbound[r].data.messages))
    /\ [][\A r \in Reqs :
            (outbound[r].kind = "followup" /\ outbound'[r].kind = "followup") =>
               IsPrefix(outbound[r].data.messages, outbound'[r].data.messages)]_vars

\* The second follow-up request is out, after two rounds of two calls each.
C15_Witness ==
    \E r \in Reqs :
        /\ outbound[r].kind = "followup"
        /\ n_sent[r] = 3
        /\ Len(Appended(r, outbound[r].data)) = 6

\* The tools of `list` whose qualified name starts with provider p.
ToolsFrom(list, p) ==
    LET OfProvider(t) == Split(t)[1] = p
    IN SelectSeq(list, OfProvider)

\* `list` is made of the translated tools of the registered providers and of
\* nothing else.
IsRegistryCatalog(list) ==
    /\ \A i \in 1..Len(list) : Registered(Split(list[i])[1])
    /\ \A p \in Providers :
          Registered(p) => ToolsFrom(list, p) = openai_tools[p]
    /\ Len(list) = Len(get_mcp_tools)

----------------------------------------------------------------------------
(* Properties of tool names.                                               *)

\* The call of the current batch of request r that has this id.
CallWithId(r, id) ==
    tool_calls[r][CHOOSE i \in 1..Len(tool_calls[r]) : tool_calls[r][i].id = id]

\* C17: the tools a registered client exposes are its provider's tools, each
\* named provider "." originalName, and str.split(".") takes that name back
\* to the pair (provider, originalName); every call_tool invocation is made
\* on the client registered under the first part of the called name, with
\* the second part as tool name.
C17_QualifiedNamesRoundTrip ==
    /\ \A p \in Providers :
          Registered(p) =>
             /\ Len(openai_tools[p]) = Len(mcp_tools[p])
             /\ \A i \in 1..Len(openai_tools[p]) :
                   /\ openai_tools[p][i] = p \o <<".">> \o mcp_tools[p][i].name
                   /\ Split(openai_tools[p][i]) = <<p, mcp_tools[p][i].name>>
    /\ \A r \in Reqs :
          \A k \in 1..Len(invoked[r]) :
             LET called == CallWithId(r, invoked[r][k].id).name
             IN /\ Registered(invoked[r][k].client)
                /\ called = invoked[r][k].client \o <<".">> \o invoked[r][k].tool
                /\ \A p \in Providers :
                      \A i \in 1..Len(openai_tools[p]) :
                         called = openai_tools[p][i] =>
                            /\ invoked[r][k].client = p
                            /\ invoked[r][k].tool = mcp_tools[p][i].name

\* call_tool is in flight on client d for the tool the model called d.r.
C17_Witness ==
    \E r \in Reqs :
        /\ pc[r] = "calling"
        /\ invoked[r] # <<>>
        /\ invoked[r][Len(invoked[r])].client = <<"d">>
        /\ invoked[r][Len(invoked[r])].tool = <<"r">>
        /\ tool_calls[r][idx[r]].name = <<"d", ".", "r">>

----------------------------------------------------------------------------
(* Properties of shutdown.                                                 *)

\* C18: when cleanup_mcp_servers returns, disconnect() has been called on
\* every client that was in the registry, whichever of these calls raised,
\* and the registry is empty; until then the registry is as startup left it.
C18_ShutdownDisconnectsAll ==
    [][/\ (phase # "stopped" /\ phase' = "stopped") =>
             /\ connected_servers' = <<>>
             /\ \A p \in Providers : Registered(p) => last'[p].op = "disconnect"
       /\ (phase = "cleanup" /\ phase' = "cleanup") =>
             connected_servers' = connected_servers]_vars

\* Shutdown is over; the first of two registered clients failed to
\* disconnect and the second one disconnected.
C18_Witness ==
    /\ phase = "stopped"
    /\ connected_servers = <<>>
    /\ \E p, q \in Providers :
          /\ last[p] = Did("disconnect", "Exception")
          /\ state[p] = "connected"
          /\ last[q] = Did("disconnect", "none")
          /\ state[q] = "disconnected"

----------------------------------------------------------------------------
(* Properties of concurrent requests.                                      *)

\* Where request r stands; every step of its handler changes it.
Frame(r) == <<pc[r], idx[r], iteration[r], n_sent[r]>>

\* No step of one request's handler changes the counters of another request.
CountersAreOwn ==
    \A r, q \in Reqs :
        (r # q /\ Frame(r)' # Frame(r)) =>
            <<iteration[q], n_sent[q]>>' = <<iteration[q], n_sent[q]>>

\* C19 as stated: the loop counter of a request counts all the requests sent
\* upstream for it, the initial forward included, so that their number never
\* exceeds MAX_ITERATION; and no request changes the counter of another.
C19_AllRoundTripsWithinMaximum ==
    /\ [](\A r \in Reqs :
            /\ iteration[r] = n_sent[r]
            /\ n_sent[r] <= MAX_ITERATION)
    /\ [][CountersAreOwn]_vars

\* C19: the loop counter of a request counts the follow-up requests sent for
\* it and never exceeds MAX_ITERATION, so that with the initial forward at
\* most MAX_ITERATION + 1 requests go upstream; and no request changes the
\* counter of another.
C19_FollowUpsWithinMaximum ==
    /\ [](\A r \in Reqs :
            /\ n_sent[r] >= 1 => iteration[r] = n_sent[r] - 1
            /\ n_sent[r] = 0 => iteration[r] = 0
            /\ iteration[r] <= MAX_ITERATION
            /\ n_sent[r] <= MAX_ITERATION + 1)
    /\ [][CountersAreOwn]_vars

\* One request has used up its budget while another one, in flight, has
\* only been forwarded.
C19_Witness ==
    \E r, q \in Reqs :
        /\ MAX_ITERATION = MaxIterations
        /\ iteration[r] = MAX_ITERATION
        /\ n_sent[r] = MAX_ITERATION + 1
        /\ pc[q] = "exec"
        /\ iteration[q] = 0
        /\ n_sent[q] = 1

\* The clients on which request r awaits session.call_tool.
InFlight(r) ==
    IF pc[r] = "calling" THEN {invoked[r][Len(invoked[r])].client} ELSE {}

\* C20: no two requests await call_tool on the same client at the same
\* time: a second call on a client does not start before the first has
\* come back.
C20_CallsOnOneClientAreSerialized ==
    \A r, q \in Reqs : r # q => InFlight(r) \cap InFlight(q) = {}

----------------------------------------------------------------------------
(* Properties of the execution of a batch.                                 *)

\* C21: the calls of a batch are executed one at a time in the order
\* received: call_tool is entered for call i+1 only when call i has returned
\* or failed (its tool message is appended), and a follow-up request is sent
\* only when the last call of the batch has finished.
C21_BatchIsSequential ==
    /\ [](\A r \in Reqs :
            /\ \A i, j \in 1..Len(invoked[r]) :
                  i < j => \E k, l \in 1..Len(tool_calls[r]) :
                              /\ k < l
                              /\ invoked[r][i].id = tool_calls[r][k].id
                              /\ invoked[r][j].id = tool_calls[r][l].id
            /\ pc[r] \in {"exec", "calling"} =>
                  /\ idx[r] \in 1..Len(tool_calls[r])
                  /\ Len(messages[r]) = idx[r]
                  /\ \A i \in 1..Len(invoked[r]) :
                        \E k \in 1..idx[r] : invoked[r][i].id = tool_calls[r][k].id
            /\ pc[r] = "calling" =>
                  invoked[r][Len(invoked[r])].id = tool_calls[r][idx[r]].id
            /\ pc[r] = "await_followup" =>
                  /\ BatchDone(r)
                  /\ Len(messages[r]) = Len(tool_calls[r]) + 1)
    /\ [][\A r \in Reqs :
            /\ (invoked'[r] # invoked[r] /\ invoked'[r] # <<>>) =>
                  /\ pc[r] = "exec"
                  /\ invoked'[r] = Append(invoked[r], invoked'[r][Len(invoked'[r])])
                  /\ invoked'[r][Len(invoked'[r])].id = tool_calls[r][idx[r]].id
                  /\ Len(messages[r]) = idx[r]
            /\ (n_sent'[r] # n_sent[r] /\ outbound'[r].kind = "followup") =>
                  /\ pc[r] \in {"exec", "calling"}
                  /\ idx[r] = Len(tool_calls[r])
                  /\ BatchDone(r)'
                  /\ Len(messages'[r]) = Len(tool_calls[r]) + 1]_vars

\* A follow-up has been sent for a batch of two calls, both handed to a
\* client, the first of which failed.
C21_Witness ==
    \E r \in Reqs :
        /\ pc[r] = "await_followup"
        /\ Len(tool_calls[r]) = 2
        /\ Len(invoked[r]) = 2
        /\ tool_calls[r][1].id \in failed[r]
        /\ tool_calls[r][2].id \notin failed[r]

----------------------------------------------------------------------------
(* Properties of the registry.                                             *)

\* C22: from the end of startup to the start of shutdown no step changes
\* the registry, however the handlers of concurrent requests interleave; a
\* step of a request handler never changes it, and the registry changes
\* only while the startup hook or the shutdown hook runs.
C22_RegistryIsFixedWhileServing ==
    [][/\ phase = "serving" => connected_servers' = connected_servers
       /\ \A r \in Reqs :
             Frame(r)' # Frame(r) =>
                (phase = "serving" /\ connected_servers' = connected_servers)
       /\ connected_servers' # connected_servers =>
             phase \in {"connecting", "cleanup"}]_vars

\* Two requests are in flight, one of them calling a tool of a provider
\* that startup did not register, while the registry holds one client.
C22_Witness ==
    /\ phase = "serving"
    /\ Len(connected_servers) = 1
    /\ \E r, q \in Reqs :
          /\ r # q
          /\ pc[r] = "calling"
          /\ pc[q] = "await_followup"
          /\ \E i \in 1..Len(messages[q]) :
                messages[q][i].role = "tool" /\ messages[q][i].tool_call_id \in failed[q]
          /\ invoked[q] = <<>>

----------------------------------------------------------------------------
(* Properties of a failed tool call.                                       *)

\* C23: a call_tool that fails on the transport raises to its caller and
\* changes neither the state of the client, nor its session handle, exit
\* stack or tool catalog; the client is still Connected, and the next
\* call_tool on it is handed to the session again.
C23_FailedCallChangesNothing ==
    /\ [](\A p \in Providers :
            (last[p].op = "call_tool" /\ last[p].forwarded) =>
                (state[p] = "connected" /\ session[p] = "open"))
    /\ [][\A p \in Providers :
            /\ (last'[p] = Called("call_tool", "Exception", TRUE)) =>
                  (is_connected(p) /\ ClientOf(p)' = ClientOf(p))
            /\ (/\ last[p] = Called("call_tool", "Exception", TRUE)
                /\ last'[p].op = "call_tool") => last'[p].forwarded]_vars

\* A call has failed on a Connected client with its catalog.
C23_Witness ==
    \E p \in Providers :
        /\ last[p] = Called("call_tool", "Exception", TRUE)
        /\ state[p] = "connected"
        /\ exit_stack[p] = FullStack
        /\ openai_tools[p] # <<>>

----------------------------------------------------------------------------
(* Properties of the end of a request.                                     *)

\* C24: when a request is over, the tool message of every call executed in
\* its last batch (and so, by C15, of every batch) has been sent upstream in
\* a follow-up request: no result is produced and then dropped, the batch
\* of the last permitted round included.
C24_NoResultIsDiscarded ==
    \A r \in Reqs :
        pc[r] = "done" =>
            \A i \in 2..Len(messages[r]) :
                Carries(outbound[r], messages[r][i].tool_call_id)

\* C25: when the batch stops at a call whose name does not split into
\* exactly two parts, the request is over with a 500, the list holds the
\* tool messages of the calls before it and none for it or a later call,
\* and no follow-up request was sent after the response that carried the
\* batch.
C25_UnsplittableNameEndsRequest ==
    \A r \in Reqs :
        (/\ pc[r] = "done"
         /\ idx[r] \in 1..Len(tool_calls[r])
         /\ Len(Split(tool_calls[r][idx[r]].name)) # 2) =>
            /\ result[r].status = 500
            /\ Len(messages[r]) = idx[r]
            /\ \A k \in 1..(idx[r] - 1) :
                  messages[r][k + 1].tool_call_id = tool_calls[r][k].id
            /\ n_sent[r] = BatchRound(r)

=============================================================================
